---------------------------- MODULE Spec2Model ----------------------------
(***************************************************************************)
(* TrailRibbon (src/TrailRibbon.js): a bounded ledger of aging samples and *)
(* the ribbon mesh rebuilt from it.                                        *)
(*                                                                         *)
(* Numbers.  Times (age, deltaTime, fadeTime) are binary floating-point    *)
(* numbers with a Precision-bit significand, written as integer multiples  *)
(* of the smallest time quantum; every addition rounds to nearest, ties to *)
(* even, as a JavaScript Number does with 53 bits.                         *)
(* Vectors are integer triples.  A normalised vector is written as the     *)
(* primitive integer vector of its direction (components divided by their  *)
(* gcd): it denotes d/|d|, of length 1, and the zero vector stays zero, as *)
(* THREE.Vector3.normalize leaves it.  A vertex of the position buffer is  *)
(* [c, u, h], denoting the point c + h * u/|u|.                            *)
(***************************************************************************)
EXTENDS Integers, Sequences

\* Bounds of the model.
MaxPoints == 3
MaxFadeTime == 6
MaxDelta == 6
MaxAdds == 5
Precision == 2

VARIABLES
    maxPoints,    \* this.maxPoints
    fadeTime,     \* this.fadeTime
    billboard,    \* this.billboard
    normalAngle,  \* this.normalAngle, in quarter turns (multiples of PI/2)
    camera,       \* this.camera: the camera's position, or NoCamera (null)
    color,        \* this.color and the uBaseColor uniform
    texture,      \* this.texture and the uTexture uniform
    points,       \* this.points: sequence of [position, width, age, id]
    positions,    \* this.positions: vertex slot -> vertex
    colors,       \* this.colors: vertex slot -> RGBA
    indices,      \* this.indices: index slot -> vertex slot
    drawRange,    \* this.geometry.drawRange
    vectors,      \* the live Vector3 objects: reference -> coordinates
    allocated,    \* number of point objects created so far
    burst,        \* history: addPoint calls since construct/clear, -1 once update ran
    elapsed,      \* history: exact total of deltaTime since the last addPoint/clear,
                  \*          counted up to fadeTime
    accum,        \* history: the same total added up as the ages are (rounded),
                  \*          counted up to fadeTime
    addedAt       \* history: sample id -> coordinates passed to its addPoint

config == <<maxPoints, fadeTime, billboard>>
mutable == <<normalAngle, camera, color, texture>>
ledger == <<points, vectors, allocated>>
buffers == <<positions, colors, indices, drawRange>>
history == <<burst, elapsed, accum, addedAt>>
vars == <<config, mutable, ledger, buffers, history>>

-----------------------------------------------------------------------------
(* Arithmetic *)

Min(a, b) == IF a < b THEN a ELSE b
Max(a, b) == IF a > b THEN a ELSE b
Abs(a) == IF a < 0 THEN -a ELSE a

RECURSIVE Gcd(_, _)
Gcd(a, b) == IF b = 0 THEN a ELSE Gcd(b, a % b)

RECURSIVE Pow2(_)
Pow2(n) == IF n = 0 THEN 1 ELSE 2 * Pow2(n - 1)

\* The spacing of the floating-point numbers around x >= 0.
RECURSIVE Ulp(_)
Ulp(x) == IF x < Pow2(Precision) THEN 1 ELSE 2 * Ulp(x \div 2)

Representable(x) == x % Ulp(x) = 0

\* Round to nearest, ties to even.
RoundNearestEven(x) ==
    LET u == Ulp(x)
        q == x \div u
        r == x % u
    IN  IF 2 * r < u THEN q * u
        ELSE IF 2 * r > u THEN (q + 1) * u
        ELSE IF q % 2 = 0 THEN q * u ELSE (q + 1) * u

\* age += deltaTime
AddAge(age, deltaTime) == RoundNearestEven(age + deltaTime)

-----------------------------------------------------------------------------
(* Vectors *)

Zero == <<0, 0, 0>>
NoCamera == <<>>

SubVectors(a, b) == <<a[1] - b[1], a[2] - b[2], a[3] - b[3]>>

CrossVectors(a, b) ==
    <<a[2] * b[3] - a[3] * b[2],
      a[3] * b[1] - a[1] * b[3],
      a[1] * b[2] - a[2] * b[1]>>

Dot(a, b) == a[1] * b[1] + a[2] * b[2] + a[3] * b[3]

Negate(a) == <<-a[1], -a[2], -a[3]>>

\* v / (|v| || 1): the unit vector of v's direction, zero for zero.
Normalize(v) ==
    IF v = Zero THEN Zero
    ELSE LET g == Gcd(Gcd(Abs(v[1]), Abs(v[2])), Abs(v[3]))
         IN  <<v[1] \div g, v[2] \div g, v[3] \div g>>

\* lengthSq() of a vector that was normalised: 1, or 0 for the zero vector.
LengthSq(u) == IF u = Zero THEN 0 ELSE 1

\* lengthSq() < 0.01
Degenerate(u) == 100 * LengthSq(u) < 1


UpVec == <<0, 1, 0>>
RightVec == <<1, 0, 0>>

\* perpVec.applyQuaternion(setFromAxisAngle(tempVec, normalAngle)) for an angle
\* of quarterTurns * PI/2 and perpVec at right angles to the axis tempVec:
\* perpVec * cos + (tempVec x perpVec) * sin.
ApplyAxisAngle(perpVec, tempVec, quarterTurns) ==
    LET q == quarterTurns % 4
    IN  IF q = 0 THEN perpVec
        ELSE IF q = 1 THEN Normalize(CrossVectors(tempVec, perpVec))
        ELSE IF q = 2 THEN Negate(perpVec)
        ELSE Negate(Normalize(CrossVectors(tempVec, perpVec)))

-----------------------------------------------------------------------------
(* The mesh synthesizer: _updateGeometry *)

PositionOf(pts, heap, i) == heap[pts[i + 1].position]

\* Direction to the next point, or from the previous point (i is 0-based).
Tangent(pts, heap, i) ==
    LET numPoints == Len(pts)
    IN  Normalize(IF i < numPoints - 1
                  THEN SubVectors(PositionOf(pts, heap, i + 1), PositionOf(pts, heap, i))
                  ELSE SubVectors(PositionOf(pts, heap, i), PositionOf(pts, heap, i - 1)))

\* Billboard mode: tangent x camera direction, world up when that vanishes.
BillboardPerpendicular(tempVec, pos) ==
    LET cameraDir == Normalize(SubVectors(camera, pos))
        perpVec == Normalize(CrossVectors(tempVec, cameraDir))
    IN  IF Degenerate(perpVec)
        THEN Normalize(CrossVectors(tempVec, UpVec))
        ELSE perpVec

\* Faulty variant: no second axis for a vertical tangent.
FixedAxisPerpendicularNoFallback(tempVec) ==
    LET perpVec == Normalize(CrossVectors(tempVec, UpVec))
    IN  IF normalAngle # 0
        THEN ApplyAxisAngle(perpVec, tempVec, normalAngle)
        ELSE perpVec

\* Normal mode: tangent x world up, world right when the tangent is vertical,
\* then the twist by normalAngle about the tangent.
FixedAxisPerpendicular(tempVec) ==
    LET first == Normalize(CrossVectors(tempVec, UpVec))
        perpVec == IF Degenerate(first)
                   THEN Normalize(CrossVectors(tempVec, RightVec))
                   ELSE first
    IN  IF normalAngle # 0
        THEN ApplyAxisAngle(perpVec, tempVec, normalAngle)
        ELSE perpVec

Perpendicular(tempVec, pos) ==
    IF billboard /\ camera # NoCamera
    THEN BillboardPerpendicular(tempVec, pos)
    ELSE FixedAxisPerpendicular(tempVec)

\* point.width * 0.5 (widths are even multiples of the length unit)
HalfWidth(width) == width \div 2

\* The vertex of slot k (k = 2i: left, k = 2i + 1: right) of sample i.
Vertex(pts, heap, k) ==
    LET i == k \div 2
        pos == PositionOf(pts, heap, i)
        perpVec == Perpendicular(Tangent(pts, heap, i), pos)
        halfWidth == HalfWidth(pts[i + 1].width)
    IN  [c |-> pos, u |-> perpVec, h |-> IF k % 2 = 0 THEN -halfWidth ELSE halfWidth]

\* clamp(1.0 - age / fadeTime, 0, 1), as the fraction num / den
Alpha(age) == [num |-> Max(0, Min(fadeTime, fadeTime - age)), den |-> fadeTime]

\* Faulty variant: only the left vertex is coloured.
VertexColorLeftOnly(pts, k) ==
    IF k % 2 = 0
    THEN [r |-> 1, g |-> 1, b |-> 1, a |-> Alpha(pts[k \div 2 + 1].age)]
    ELSE colors[k]
\* Vertex color (RGBA) of slot k
VertexColor(pts, k) ==
    [r |-> 1, g |-> 1, b |-> 1, a |-> Alpha(pts[k \div 2 + 1].age)]

\* Faulty variant: four vertices of its own for every quad.
IndexValueUnshared(slot) ==
    LET i == slot \div 6
        j == slot % 6
    IN  CASE j = 0 -> 4 * i [] j = 1 -> 4 * i + 2 [] j = 2 -> 4 * i + 1
          [] j = 3 -> 4 * i + 1 [] j = 4 -> 4 * i + 2 [] OTHER -> 4 * i + 3
\* The value written to index slot 6i + j: (bl, tl, br), (br, tl, tr).
IndexValue(slot) ==
    LET i == slot \div 6
        j == slot % 6
        bl == i * 2
        br == i * 2 + 1
        tl == (i + 1) * 2
        tr == (i + 1) * 2 + 1
    IN  CASE j = 0 -> bl [] j = 1 -> tl [] j = 2 -> br
          [] j = 3 -> br [] j = 4 -> tl [] OTHER -> tr

\* Faulty variant: six indices per point instead of per segment.
DrawCountPerPoint(numPoints) == numPoints * 6
\* setDrawRange(0, (numPoints - 1) * 6)
DrawCount(numPoints) == (numPoints - 1) * 6

\* Writes past the end of a typed array are dropped, so a slot outside the
\* buffer's domain is never created.
UpdateGeometry(pts, heap) ==
    LET numPoints == Len(pts)
    IN  IF numPoints < 2
        THEN /\ drawRange' = [start |-> 0, count |-> 0]
             /\ UNCHANGED <<positions, colors, indices>>
        ELSE /\ positions' = [k \in DOMAIN positions |->
                                IF k < 2 * numPoints THEN Vertex(pts, heap, k)
                                ELSE positions[k]]
             /\ colors' = [k \in DOMAIN colors |->
                                IF k < 2 * numPoints THEN VertexColor(pts, k)
                                ELSE colors[k]]
             /\ indices' = [s \in DOMAIN indices |->
                                IF s < 6 * (numPoints - 1) THEN IndexValue(s)
                                ELSE indices[s]]
             /\ drawRange' = [start |-> 0, count |-> DrawCount(numPoints)]

-----------------------------------------------------------------------------
(* The point ledger *)

CallerRef == 0

Live(pts) == {CallerRef} \cup {pts[i].position : i \in DOMAIN pts}

\* Vector3 objects no sample refers to any more are garbage.
Collect(heap, pts) == [r \in Live(pts) |-> heap[r]]

\* Faulty variant: the sample keeps the caller's vector itself.
PositionAlias(position, ref, heap) == [ref |-> position, heap |-> heap]
\* position.clone(): a new Vector3 object with the coordinates of position
PositionClone(position, ref, heap) ==
    [ref |-> ref, heap |-> [r \in DOMAIN heap \cup {ref} |->
                              IF r = ref THEN heap[position] ELSE heap[r]]]

\* Faulty variant: the overflow test is off by one.
EvictOffByOne(pts) ==
    IF Len(pts) > maxPoints + 1 THEN Tail(pts) ELSE pts
\* Faulty variant: pop() instead of shift().
EvictNewest(pts) ==
    IF Len(pts) > maxPoints THEN SubSeq(pts, 1, Len(pts) - 1) ELSE pts
\* Remove oldest point if exceeding max points
Evict(pts) ==
    IF Len(pts) > maxPoints THEN Tail(pts) ELSE pts

\* Faulty variant: > instead of >=.
RECURSIVE TrimStrict(_)
TrimStrict(pts) ==
    IF Len(pts) > 0 /\ pts[1].age > fadeTime THEN TrimStrict(Tail(pts)) ELSE pts
\* Remove fully transparent points
RECURSIVE Trim(_)
Trim(pts) ==
    IF Len(pts) > 0 /\ pts[1].age >= fadeTime THEN Trim(Tail(pts)) ELSE pts

\* Faulty variant: only the front sample ages.
AgedFrontOnly(pts, deltaTime) ==
    [i \in DOMAIN pts |->
        IF i = 1 THEN [pts[i] EXCEPT !.age = AddAge(@, deltaTime)] ELSE pts[i]]
\* Update age of each point
Aged(pts, deltaTime) ==
    [i \in DOMAIN pts |-> [pts[i] EXCEPT !.age = AddAge(@, deltaTime)]]

AddPoint(position, width) ==
    /\ allocated < MaxAdds
    /\ LET id == allocated + 1
           clone == PositionClone(position, id, vectors)
           point == [position |-> clone.ref, width |-> width, age |-> 0, id |-> id]
           pts == Evict(Append(points, point))
           heap == Collect(clone.heap, pts)
       IN  /\ points' = pts
           /\ vectors' = heap
           /\ allocated' = id
           /\ UpdateGeometry(pts, heap)
           /\ burst' = IF burst >= 0 THEN burst + 1 ELSE burst
           /\ elapsed' = 0
           /\ accum' = 0
           /\ addedAt' = [i \in {pts[k].id : k \in DOMAIN pts} |->
                            IF i = id THEN vectors[position] ELSE addedAt[i]]
    /\ UNCHANGED <<config, mutable>>

Update(deltaTime) ==
    /\ IF Len(points) = 0
       THEN UNCHANGED <<ledger, buffers, addedAt, burst>>
       ELSE LET pts == Trim(Aged(points, deltaTime))
                heap == Collect(vectors, pts)
            IN  /\ points' = pts
                /\ vectors' = heap
                /\ UpdateGeometry(pts, heap)
                /\ burst' = -1
                /\ addedAt' = [i \in {pts[k].id : k \in DOMAIN pts} |-> addedAt[i]]
                /\ UNCHANGED allocated
    /\ elapsed' = Min(elapsed + deltaTime, fadeTime)
    /\ accum' = Min(AddAge(accum, deltaTime), fadeTime)
    /\ UNCHANGED <<config, mutable>>

Clear ==
    /\ points' = <<>>
    /\ vectors' = Collect(vectors, <<>>)
    /\ drawRange' = [start |-> 0, count |-> 0]
    /\ burst' = 0
    /\ elapsed' = 0
    /\ accum' = 0
    /\ addedAt' = <<>>
    /\ UNCHANGED <<config, mutable, allocated, positions, colors, indices>>

SetCamera(cam) ==
    /\ camera' = cam
    /\ UNCHANGED <<config, normalAngle, color, texture, ledger, buffers, history>>

SetNormalAngle(quarterTurns) ==
    /\ normalAngle' = quarterTurns
    /\ UNCHANGED <<config, camera, color, texture, ledger, buffers, history>>

SetColor(c) ==
    /\ color' = c
    /\ UNCHANGED <<config, normalAngle, camera, texture, ledger, buffers, history>>

SetTexture(t) ==
    /\ texture' = t
    /\ UNCHANGED <<config, normalAngle, camera, color, ledger, buffers, history>>

\* The caller moves the vector it passes to addPoint (objectPosition.set(...)).
MoveObject(v) ==
    /\ vectors[CallerRef] # v
    /\ vectors' = [vectors EXCEPT ![CallerRef] = v]
    /\ UNCHANGED <<config, mutable, points, allocated, buffers, history>>

-----------------------------------------------------------------------------
(* Construction *)

ZeroVertex == [c |-> Zero, u |-> Zero, h |-> 0]
ZeroColor == [r |-> 0, g |-> 0, b |-> 0, a |-> [num |-> 0, den |-> 1]]

Constructed(m, f, bb, angle, origin) ==
    /\ maxPoints = m
    /\ fadeTime = f
    /\ billboard = bb
    /\ normalAngle = angle
    /\ camera = NoCamera
    /\ color = "white"
    /\ texture = "null"
    /\ points = <<>>
    /\ positions = [k \in 0 .. (m * 2 - 1) |-> ZeroVertex]
    /\ colors = [k \in 0 .. (m * 2 - 1) |-> ZeroColor]
    /\ indices = [s \in 0 .. ((m - 1) * 2 * 3 - 1) |-> 0]
    /\ drawRange = [start |-> 0, count |-> 0]
    /\ vectors = [r \in {CallerRef} |-> origin]
    /\ allocated = 0
    /\ burst = 0
    /\ elapsed = 0
    /\ accum = 0
    /\ addedAt = <<>>

FadeTimes == {f \in 1 .. MaxFadeTime : Representable(f)}
DeltaTimes == {d \in 0 .. MaxDelta : Representable(d)}
Widths == {2, 4}
Line == {<<0, 0, 0>>, <<1, 0, 0>>}

\* The ledger and its buffers, with the caller moving its vector between calls.
Init ==
    \E m \in 1 .. MaxPoints, f \in {1, 2} :
        Constructed(m, f, FALSE, 0, <<0, 0, 0>>)

Next ==
    \/ \E w \in Widths : AddPoint(CallerRef, w)
    \/ \E d \in {0, 1, 2} : Update(d)
    \/ Clear
    \/ \E v \in Line : MoveObject(v)

Spec == Init /\ [][Next]_vars

\* Aging: every representable fade time and deltaTime, the caller standing still.
InitAging ==
    \E m \in 1 .. MaxPoints, f \in FadeTimes :
        Constructed(m, f, FALSE, 0, <<0, 0, 0>>)

NextAging ==
    \/ \E w \in {2} : AddPoint(CallerRef, w)
    \/ \E d \in DeltaTimes : Update(d)
    \/ Clear

SpecAging == InitAging /\ [][NextAging]_vars

\* Every operation of the public surface, on short fades.
Cameras == {NoCamera, <<0, 2, 0>>}
Colors == {"white", "cyan"}
Textures == {"null", "trail"}

InitAll ==
    \E m \in 1 .. MaxPoints, bb \in BOOLEAN :
        Constructed(m, 2, bb, 0, <<0, 0, 0>>)

NextAll ==
    \/ \E w \in Widths : AddPoint(CallerRef, w)
    \/ \E d \in {1, 2} : Update(d)
    \/ Clear
    \/ \E cam \in Cameras : SetCamera(cam)
    \/ \E q \in {0, 1} : SetNormalAngle(q)
    \/ \E c \in Colors : SetColor(c)
    \/ \E t \in Textures : SetTexture(t)

SpecAll == InitAll /\ [][NextAll]_vars

\* The orientation of the ribbon: samples on a small grid, seen from cameras on
\* and off the axes, in both modes and at every quarter turn of normalAngle.
Grid == {<<0, 0, 0>>, <<1, 0, 0>>, <<0, 1, 0>>, <<0, 0, 1>>}
GridCameras == {NoCamera, <<0, 2, 0>>, <<2, 0, 1>>}

InitGeometry ==
    \E m \in {2, 3}, bb \in BOOLEAN :
        Constructed(m, 1, bb, 0, <<0, 0, 0>>)

NextGeometry ==
    \/ \E w \in {2} : AddPoint(CallerRef, w)
    \/ Update(1)
    \/ \E cam \in GridCameras : SetCamera(cam)
    \/ \E q \in {0, 1, 2} : SetNormalAngle(q)
    \/ \E v \in Grid : MoveObject(v)

SpecGeometry == InitGeometry /\ [][NextGeometry]_vars

-----------------------------------------------------------------------------
(* Properties of the ledger *)

Ids(pts) == [i \in DOMAIN pts |-> pts[i].id]
NoRange == [start |-> 0, count |-> 0]

\* C1: the ledger never holds more than maxPoints samples.
C1_LedgerBounded == Len(points) <= maxPoints

C1_Witness ==
    /\ Len(points) = maxPoints
    /\ allocated > maxPoints
    /\ burst = allocated

\* What an addPoint step does to the ledger.
C2_AddStep ==
    allocated' = allocated + 1 =>
        LET n == Len(points)
            new == points'[Len(points')]
        IN  /\ Len(points') >= 1
            /\ new.age = 0
            /\ new.id = allocated'
            /\ vectors'[new.position] = vectors[CallerRef]
            /\ IF n + 1 > maxPoints
               THEN /\ Len(points') = n
                    /\ \A i \in 1 .. n - 1 : points'[i] = points[i + 1]
               ELSE /\ Len(points') = n + 1
                    /\ \A i \in 1 .. n : points'[i] = points[i]

\* The ledger after a burst of addPoint calls.
C2_Burst ==
    burst >= 0 =>
        LET n == Min(burst, maxPoints)
        IN  /\ Len(points) = n
            /\ \A i \in 1 .. n :
                  /\ points[i].id = allocated - n + i
                  /\ points[i].age = 0
                  /\ vectors[points[i].position] = addedAt[points[i].id]

\* C2: an addPoint step appends the new sample (age 0, the caller's
\* coordinates) at the back and drops exactly the front sample when the length
\* would exceed maxPoints, leaving the others as they were and in order; so
\* after k addPoint calls from an empty ledger with no update or clear in
\* between, the ledger is the last min(k, maxPoints) samples added, in order.
C2_Fifo == []C2_Burst /\ [][C2_AddStep]_vars

C2_Witness ==
    /\ maxPoints = 3
    /\ burst = 4
    /\ Ids(points) = <<2, 3, 4>>

\* Ages in the ledger: below fadeTime, never growing from front to back.
C4_NoFaded ==
    /\ \A i \in DOMAIN points : points[i].age < fadeTime
    /\ \A i, j \in DOMAIN points :
          i < j => points[i].age >= points[j].age /\ points[i].id < points[j].id

\* What a step that adds no sample does to the ledger.
C4_TrimStep ==
    allocated' = allocated =>
        LET n == Len(points)
            k == n - Len(points')
        IN  /\ k >= 0
            /\ \E d \in DeltaTimes :
                  \A i \in 1 .. Len(points') :
                      points'[i] = [points[i + k] EXCEPT !.age = AddAge(@, d)]
            /\ \A i \in 1 .. Len(points') : points'[i].age >= points[i + k].age

\* C4: no sample of the ledger has age >= fadeTime (update leaves none, and
\* nothing else ages a sample), ages never grow from front to back, and a step
\* that adds no sample keeps a suffix of the ledger, in order, every survivor
\* aged by the same deltaTime.
C4_FrontTrim == []C4_NoFaded /\ [][C4_TrimStep]_vars

C4_Witness ==
    /\ burst = -1
    /\ allocated <= maxPoints
    /\ Len(points) >= 1
    /\ points[1].id > 1
    /\ points[1].age > 0

\* C5 as stated: once the deltaTime values passed to update since the last
\* addPoint total fadeTime or more, the ledger is empty and the draw range (0,0).
C5_ExactTotalEmpties ==
    elapsed >= fadeTime => points = <<>> /\ drawRange = NoRange

\* C5 amended: once the deltaTime values, added up as the ages are (each
\* addition rounded), reach fadeTime, the ledger is empty and the draw range
\* (0,0); a single update(dt) with dt >= fadeTime always does.
C5_RoundedTotalEmpties ==
    accum >= fadeTime => points = <<>> /\ drawRange = NoRange

C5_Witness ==
    /\ accum >= fadeTime
    /\ burst = -1
    /\ points = <<>>
    /\ positions[0] # ZeroVertex

\* C8: every sample's stored position holds the coordinates its vector had when
\* addPoint was called, whatever the caller did to the vector since, and so do
\* the vertices rebuilt from it.
C8_OwnedCopy ==
    \A i \in DOMAIN points :
        /\ vectors[points[i].position] = addedAt[points[i].id]
        /\ drawRange.count > 0 =>
              /\ positions[2 * (i - 1)].c = addedAt[points[i].id]
              /\ positions[2 * (i - 1) + 1].c = addedAt[points[i].id]

C8_Witness ==
    /\ Len(points) = 3
    /\ drawRange.count = 12
    /\ addedAt[points[1].id] # addedAt[points[2].id]
    /\ addedAt[points[2].id] # addedAt[points[3].id]
    /\ vectors[CallerRef] # addedAt[points[3].id]
    /\ points[1].age > 0

-----------------------------------------------------------------------------
(* Properties of the buffers *)

\* The colour buffer against the ledger.
C9_Colors ==
    Len(points) >= 2 =>
        \A i \in DOMAIN points : \A k \in {2 * (i - 1), 2 * (i - 1) + 1} :
            LET col == colors[k]
                age == points[i].age
            IN  /\ col.r = 1 /\ col.g = 1 /\ col.b = 1
                /\ col.a.den > 0
                /\ col.a.num * fadeTime
                      = col.a.den * Max(0, Min(fadeTime, fadeTime - age))
                /\ col.a = colors[2 * (i - 1)].a
                /\ age = 0 => col.a.num = col.a.den

\* The alpha of a sample from one state to the next.
C9_AlphaStep ==
    Len(points) >= 2 /\ Len(points') >= 2 =>
        \A i \in DOMAIN points, j \in DOMAIN points' :
            points[i].id = points'[j].id =>
                LET old == colors[2 * (i - 1)].a
                    new == colors'[2 * (j - 1)].a
                IN  new.num * old.den <= old.num * new.den

\* C9: with 2 or more samples in the ledger, both vertices of every sample
\* carry RGB (1,1,1) and the alpha clamp(1 - age/fadeTime, 0, 1) of the
\* sample's current age, which is 1 for a sample of age 0; from one state to
\* the next the alpha of a sample that stays in the ledger never increases.
C9_Alpha == []C9_Colors /\ [][C9_AlphaStep]_vars

C9_Witness ==
    /\ Len(points) >= 2
    /\ points[1].age > 0
    /\ points[Len(points)].age = 0
    /\ colors[0].a.num < colors[0].a.den
    /\ colors[3].a.num = colors[3].a.den

\* C10: the buffers keep the size they were given at construction, the live
\* samples fit them, and every index of the active draw range follows the
\* quad-strip pattern and names a vertex below 2 * len that holds the current
\* sample's position and half width.
C10_Buffers ==
    LET len == Len(points)
    IN  /\ DOMAIN positions = 0 .. (2 * maxPoints - 1)
        /\ DOMAIN colors = 0 .. (2 * maxPoints - 1)
        /\ DOMAIN indices = 0 .. (6 * (maxPoints - 1) - 1)
        /\ len <= maxPoints
        /\ drawRange.start = 0
        /\ drawRange.count <= 6 * (maxPoints - 1)
        /\ drawRange.count > 0 => drawRange.count = 6 * (len - 1)
        /\ \A s \in 0 .. (drawRange.count - 1) :
              LET i == s \div 6
                  v == indices[s]
              IN  /\ i \in 0 .. (len - 2)
                  /\ v = <<2 * i, 2 * i + 2, 2 * i + 1,
                           2 * i + 1, 2 * i + 2, 2 * i + 3>>[(s % 6) + 1]
                  /\ v < 2 * len
                  /\ positions[v].c = vectors[points[v \div 2 + 1].position]
                  /\ 2 * Abs(positions[v].h) = points[v \div 2 + 1].width

C10_Witness ==
    /\ maxPoints = 3
    /\ Len(points) = 2
    /\ drawRange.count = 6
    /\ positions[4] # ZeroVertex
    /\ positions[4].c # vectors[points[2].position]
    /\ indices[11] = 5

\* C3: the draw range starts at 0 and counts 0 indices with fewer than 2
\* samples in the ledger, (len - 1) * 6 with 2 or more.
C3_DrawRange ==
    /\ drawRange.start = 0
    /\ drawRange.count = IF Len(points) < 2 THEN 0 ELSE (Len(points) - 1) * 6

C3_Witness ==
    /\ maxPoints >= 2
    /\ Len(points) = 1
    /\ indices[1] = 2
    /\ drawRange = NoRange
    /\ color = "cyan"
    /\ texture = "trail"
    /\ camera # NoCamera
    /\ normalAngle # 0

-----------------------------------------------------------------------------
(* Properties of the orientation *)

\* The vertex v = c + h * u/|u| lies at distance d from pos.
AtDistance(v, pos, d) ==
    /\ v.c = pos
    /\ IF v.u = Zero THEN d = 0 ELSE Abs(v.h) = d

\* right - left is at right angles to t.
AcrossTangent(left, right, t) ==
    /\ left.c = right.c
    /\ left.u = right.u
    /\ (right.h - left.h) * Dot(left.u, t) = 0

Vertical(t) == t = UpVec \/ t = Negate(UpVec)

C7_RebuildStep ==
    (points' # points /\ Len(points') >= 2 /\ billboard /\ camera # NoCamera) =>
        \A i \in 0 .. (Len(points') - 1) :
            LET pos == PositionOf(points', vectors', i)
                t == Tangent(points', vectors', i)
                cameraDir == Normalize(SubVectors(camera, pos))
                left == positions'[2 * i]
                right == positions'[2 * i + 1]
            IN  (t # Zero /\ CrossVectors(t, cameraDir) = Zero) =>
                    /\ left.u = Normalize(CrossVectors(t, UpVec))
                    /\ left.u # Zero
                    /\ points'[i + 1].width > 0 =>
                          right.u # Zero /\ left.h # right.h

\* C7: when a rebuild in billboard mode finds the camera on the tangent axis of
\* a sample, it uses normalize(tangent x worldUp), which is not the zero vector,
\* so the sample's left and right vertices differ when its width is > 0.
C7_FallbackNonDegenerate == [][C7_RebuildStep]_vars

=============================================================================
